---- MODULE Spec2Model ----
(***************************************************************************)
(* Model of src/question.py (class QuestionExtractor): the structural      *)
(* segmentation of an exam text into question blocks, the pattern cascade  *)
(* and AI fallback of extract_question_text, the crop-rectangle geometry   *)
(* of extract_question_image, the process_pdf orchestration, and runs of   *)
(* process_pdf that follow one another on one output directory.            *)
(*                                                                         *)
(* Text is a sequence of tokens.  A token is one lexical unit the regular  *)
(* expressions of the source distinguish:                                  *)
(*   "QN"   the label  Question Number   (any letter case, re.IGNORECASE)  *)
(*   "QI"   the label  Question Id                                         *)
(*   ":"    a colon                                                        *)
(*   " "    a blank,  "\n"  a newline       (both are \s)                  *)
(*   "0".."9"  a decimal digit              (\d)                           *)
(*   "x"    any other character, a letter                                  *)
(* The remaining tokens stand for fixed words of the AI answers and of the *)
(* placeholder text ("Q:" for Question:, "Question", "I cannot") and for   *)
(* punctuation (".", "?"), and for the words the patterns of               *)
(* extract_question_text look for: "QL" (Question Label), "Based on",      *)
(* "answer", "What is", "How much", "How many", "Which of", "In ", "If ";  *)
(* "x10" is a run of ten letters.                                          *)
(*                                                                         *)
(* Specifications: Spec (one run of process_pdf), SpecSeg                  *)
(* (extract_question_blocks alone), SpecCrop (extract_question_image       *)
(* alone), SpecText (extract_question_text alone, pattern after pattern),  *)
(* SpecRuns (runs of process_pdf with clean_temp_directory in between),    *)
(* SpecDriver (main of src/main.py: process_pdf, then                      *)
(* run_complete_workflow of src/ollama_solver.py on the same directory).   *)
(***************************************************************************)
EXTENDS Integers, Sequences, FiniteSets, TLC

VARIABLES
    pc,                  \* position inside the operation being run
    doc,                 \* the PDF: a sequence of pages, each a token sequence
    tags_response,       \* what GET /api/tags answers during this run
    open_state,          \* fitz.open(pdf_path): "not_called", "opened" or "raised"
    full_text,           \* process_pdf: full_text / extract_question_blocks: text
    question_blocks,     \* the list returned by extract_question_blocks
    i,                   \* loop index of "for i, question_data in enumerate(...)"
    extracted_questions, \* process_pdf: extracted_questions
    results,             \* process_pdf: the results dictionary
    crops,               \* history: every call of extract_question_image
    files,               \* the output directory: names of the files written
    report,              \* the questions generate_reports wrote to report and viewer
    crop_in,             \* extract_question_image called alone: its arguments
    crop_out,            \* extract_question_image called alone: the clip rectangle
    ai_answers,          \* history: what query_ollama returned, call after call
    history,             \* successive runs: what the run before this one left
    text_in,             \* extract_question_text called alone: its argument
    text_out,            \* extract_question_text called alone: its progress
    workflow_results     \* main: what run_complete_workflow did and returned

vars == <<pc, doc, tags_response, open_state, full_text, question_blocks, i,
          extracted_questions, results, crops, files, report, crop_in, crop_out,
          ai_answers, history, text_in, text_out, workflow_results>>

----------------------------------------------------------------------------
(* Bounds of the model *)

\* the number of text pieces an input text / a PDF is made of
MaxPieces == 3

\* spacing of the grid the box coordinates are drawn from
GridStep == 60

----------------------------------------------------------------------------
(* Small helpers *)

Max(a, b) == IF a >= b THEN a ELSE b

Min(a, b) == IF a <= b THEN a ELSE b

None == [none |-> TRUE]

Digits == {"0", "1", "2", "3", "4", "5", "6", "7", "8", "9"}

DigitChar == <<"0", "1", "2", "3", "4", "5", "6", "7", "8", "9">>

DigitVal(c) == CHOOSE v \in 0..9 : DigitChar[v + 1] = c

IsWs(c) == c \in {" ", "\n"}

IsDigit(c) == c \in Digits

\* int("012") = 12
RECURSIVE IntOf(_)
IntOf(ds) ==
    IF Len(ds) = 0 THEN 0
    ELSE 10 * IntOf(SubSeq(ds, 1, Len(ds) - 1)) + DigitVal(ds[Len(ds)])

\* str(12) = "12", as the f-strings format an int
RECURSIVE StrOf(_)
StrOf(n) ==
    IF n < 10 THEN <<DigitChar[n + 1]>>
    ELSE StrOf(n \div 10) \o <<DigitChar[(n % 10) + 1]>>

\* \s* from position k: the first position that holds no whitespace
RECURSIVE SkipWs(_, _)
SkipWs(t, k) == IF k <= Len(t) /\ IsWs(t[k]) THEN SkipWs(t, k + 1) ELSE k

\* \d* from position k: the first position that holds no digit
RECURSIVE SkipDigits(_, _)
SkipDigits(t, k) == IF k <= Len(t) /\ IsDigit(t[k]) THEN SkipDigits(t, k + 1) ELSE k

\* label\s*:  at position k: the position after the colon, 0 when it does not match
LabelColon(t, k, label) ==
    IF k <= Len(t) /\ t[k] = label
    THEN LET j == SkipWs(t, k + 1)
         IN  IF j <= Len(t) /\ t[j] = ":" THEN j + 1 ELSE 0
    ELSE 0

----------------------------------------------------------------------------
(* extract_question_text: the fallback to the AI collaborator.  Token lengths  *)
(* are counted in characters.                                                  *)

CharLen(c) ==
    CASE c = "QN" -> 15            \* Question Number
      [] c = "QI" -> 11            \* Question Id
      [] c = "Q:" -> 9             \* Question:
      [] c = "Question" -> 8
      [] c = "I cannot" -> 8
      [] c = "QL" -> 14            \* Question Label
      [] c = "x10" -> 10
      [] c \in {"Based on", "How much", "How many", "Which of"} -> 8
      [] c = "What is" -> 7
      [] c = "answer" -> 6
      [] c \in {"In ", "If "} -> 3
      [] OTHER -> 1

RECURSIVE TextLen(_)
TextLen(t) == IF Len(t) = 0 THEN 0 ELSE CharLen(Head(t)) + TextLen(Tail(t))

\* t[:n] for a character count n; of a token the slice cuts through, the
\* characters kept are written as letters "x"
RECURSIVE Slice(_, _)
Slice(t, n) ==
    IF Len(t) = 0 \/ n <= 0 THEN <<>>
    ELSE IF CharLen(Head(t)) <= n
         THEN <<Head(t)>> \o Slice(Tail(t), n - CharLen(Head(t)))
         ELSE [k \in 1..n |-> "x"]

\* str.strip()
RECURSIVE LStrip(_)
LStrip(t) == IF Len(t) > 0 /\ IsWs(Head(t)) THEN LStrip(Tail(t)) ELSE t

RECURSIVE RStrip(_)
RStrip(t) ==
    IF Len(t) > 0 /\ IsWs(t[Len(t)]) THEN RStrip(SubSeq(t, 1, Len(t) - 1)) ELSE t

Strip(t) == LStrip(RStrip(t))

\* the answer of query_ollama is None (any request failure, a non-200 answer) or
\* the "response" text
extract_question_with_ai(block, response) ==
    LET fallback == <<"Question", " ">> \o Slice(block, 50) \o <<".", ".", ".">>
    IN  IF response = None \/ Len(response) = 0 THEN fallback
        ELSE LET stripped == Strip(response)
                 question == IF Len(stripped) > 0 /\ Head(stripped) = "Q:"
                             THEN Strip(Tail(stripped)) ELSE stripped
             IN  IF TextLen(question) > 10
                    /\ ~(Len(question) > 0 /\ Head(question) = "I cannot")
                 THEN question
                 ELSE fallback

----------------------------------------------------------------------------
(* extract_question_text: the pattern cascade.  The words the patterns look   *)
(* for are tokens of their own: "QL" (Question Label), "Based on", "answer",  *)
(* "What is", "How much", "How many", "Which of", "In " and "If "; "In how    *)
(* many" is the token "In " followed by "How many".  "x10" is a run of ten    *)
(* letters.                                                                   *)

\* a token that begins with a letter: what [A-Z] matches under re.IGNORECASE
IsLetter(c) == c \notin (Digits \cup {" ", "\n", ":", "?", ".", "_", "PB"})

\* [^\n]* from position k: the first position that holds a newline, or the end
RECURSIVE LineEnd(_, _)
LineEnd(t, k) == IF k <= Len(t) /\ t[k] # "\n" THEN LineEnd(t, k + 1) ELSE k

\* ([^\n]+\?) at position g, greedy: the position of the last question mark of
\* the line that has a character of the line before it, 0 when there is none
GroupEnd(t, g) ==
    LET qs == {q \in (g + 1)..(LineEnd(t, g) - 1) : t[q] = "?"}
    IN  IF qs = {} THEN 0 ELSE CHOOSE q \in qs : \A r \in qs : r <= q

\* .*?\? from position k, lazy: the position of the first question mark, 0 when
\* there is none
RECURSIVE FirstQuestionMark(_, _)
FirstQuestionMark(t, k) ==
    IF k > Len(t) THEN 0
    ELSE IF t[k] = "?" THEN k ELSE FirstQuestionMark(t, k + 1)

\* a match: the position of its last token and the text findall returns for it
Match(t, from, to) == [end |-> to, text |-> SubSeq(t, from, to)]

\* \n\n([^\n]+\?) at position n
AfterBlankLine(t, n) ==
    IF n + 1 <= Len(t) /\ t[n] = "\n" /\ t[n + 1] = "\n" /\ GroupEnd(t, n + 2) # 0
    THEN Match(t, n + 2, GroupEnd(t, n + 2))
    ELSE None

\* Question Label\s*:\s*[^\n]*\n\n([^\n]+\?) at position k: the greedy \s* gives
\* back whitespace until the rest matches
QuestionLabelAt(t, k) ==
    LET a == LabelColon(t, k, "QL") IN
    IF a = 0 THEN None ELSE
    LET ss == {s \in a..SkipWs(t, a) : AfterBlankLine(t, LineEnd(t, s)) # None} IN
    IF ss = {} THEN None
    ELSE AfterBlankLine(t, LineEnd(t, CHOOSE s \in ss : \A r \in ss : r <= s))

\* Based on.*?answer.*?\n\n([^\n]+\?) at position k: the first "answer", then the
\* first blank line after it that a question line follows
BasedOnAt(t, k) ==
    IF ~(k <= Len(t) /\ t[k] = "Based on") THEN None ELSE
    LET answers == {a \in (k + 1)..Len(t) : t[a] = "answer"} IN
    IF answers = {} THEN None ELSE
    LET a  == CHOOSE x \in answers : \A y \in answers : x <= y
        ns == {n \in (a + 1)..Len(t) : AfterBlankLine(t, n) # None} IN
    IF ns = {} THEN None
    ELSE AfterBlankLine(t, CHOOSE n \in ns : \A m \in ns : n <= m)

\* ([A-Z][^\n]*\?) at position k
SentenceAt(t, k) ==
    IF k <= Len(t) /\ IsLetter(t[k]) /\ GroupEnd(t, k) # 0
    THEN Match(t, k, GroupEnd(t, k))
    ELSE None

\* words.*?\? at position k, for the words What is / How much|many / Which of /
\* In how many / If : words[j] is the set of tokens allowed as the j-th word
StartsWithAt(t, k, words) ==
    IF /\ k + Len(words) - 1 <= Len(t)
       /\ \A j \in 1..Len(words) : t[k + j - 1] \in words[j]
       /\ FirstQuestionMark(t, k + Len(words)) # 0
    THEN Match(t, k, FirstQuestionMark(t, k + Len(words)))
    ELSE None

\* variant: the generic sentence pattern is tried before the two label patterns
patterns_sentence_first ==
    <<"sentence", "label", "based_on", "what_is", "how_much_many", "which_of",
      "in_how_many", "if">>

\* the list  patterns  of extract_question_text, in its order
patterns ==
    <<"label", "based_on", "sentence", "what_is", "how_much_many", "which_of",
      "in_how_many", "if">>

\* the pattern named p matched at position k
PatternAt(p, t, k) ==
    CASE p = "label"         -> QuestionLabelAt(t, k)
      [] p = "based_on"      -> BasedOnAt(t, k)
      [] p = "sentence"      -> SentenceAt(t, k)
      [] p = "what_is"       -> StartsWithAt(t, k, <<{"What is"}>>)
      [] p = "how_much_many" -> StartsWithAt(t, k, <<{"How much", "How many"}>>)
      [] p = "which_of"      -> StartsWithAt(t, k, <<{"Which of"}>>)
      [] p = "in_how_many"   -> StartsWithAt(t, k, <<{"In "}, {"How many"}>>)
      [] p = "if"            -> StartsWithAt(t, k, <<{"If "}>>)

\* re.findall(pattern, block, IGNORECASE | DOTALL): the texts of the
\* non-overlapping matches from position k on, left to right
RECURSIVE FindAll(_, _, _)
FindAll(p, t, k) ==
    IF k > Len(t) THEN <<>>
    ELSE LET m == PatternAt(p, t, k)
         IN  IF m = None THEN FindAll(p, t, k + 1)
             ELSE <<m.text>> \o FindAll(p, t, m.end + 1)

\* variant: the first match is taken
FirstOf(matches) == Head(matches)

\* max(matches, key=len): the first of the matches of the greatest length
RECURSIVE LongestOf(_)
LongestOf(matches) ==
    IF Len(matches) = 1 THEN Head(matches)
    ELSE LET rest == LongestOf(Tail(matches))
         IN  IF TextLen(Head(matches)) >= TextLen(rest) THEN Head(matches) ELSE rest

\* line 106-108: the candidate of pattern p, <<>> when the pattern has no match
Candidate(p, block) ==
    LET matches == FindAll(p, block, 1)
    IN  IF Len(matches) = 0 THEN <<>> ELSE Strip(LongestOf(matches))

\* variant: the length is not looked at
AcceptedAnyLength(question) ==
    Len(question) > 0 /\ \E k \in 1..Len(question) : question[k] = "?"

\* line 109
Accepted(question) ==
    TextLen(question) > 15 /\ \E k \in 1..Len(question) : question[k] = "?"

\* variant: the loop never returns, every text is left to the AI extraction
NeverAccepted(block, n) == 0

\* the loop of lines 105-110 from pattern n on: the index of the pattern whose
\* candidate is returned, 0 when the loop ends without return
RECURSIVE FirstAccepted(_, _)
FirstAccepted(block, n) ==
    IF n > Len(patterns) THEN 0
    ELSE IF Accepted(Candidate(patterns[n], block)) THEN n
         ELSE FirstAccepted(block, n + 1)

extract_question_text(block, response) ==
    LET n == FirstAccepted(block, 1)
    IN  IF n # 0 THEN Candidate(patterns[n], block)
        ELSE extract_question_with_ai(block, response)

----------------------------------------------------------------------------
(* extract_question_blocks *)

\* Question Number\s*:\s*(\d+)\s+Question Id\s*:\s*(\d+)  matched at position k:
\* None, or the end of the match and the two groups
question_delimiter_pattern(t, k) ==
    LET a == LabelColon(t, k, "QN") IN
    IF a = 0 THEN None ELSE
    LET b == SkipWs(t, a)
        c == SkipDigits(t, b) IN
    IF c = b THEN None ELSE
    LET d == SkipWs(t, c) IN
    IF d = c THEN None ELSE
    LET e == LabelColon(t, d, "QI") IN
    IF e = 0 THEN None ELSE
    LET f == SkipWs(t, e)
        g == SkipDigits(t, f) IN
    IF g = f THEN None ELSE
    [end |-> g, group1 |-> SubSeq(t, b, c - 1), group2 |-> SubSeq(t, f, g - 1)]

\* re.search(question_delimiter_pattern, block): the leftmost match from k on
RECURSIVE SearchDelimiter(_, _)
SearchDelimiter(t, k) ==
    IF k > Len(t) THEN None
    ELSE IF question_delimiter_pattern(t, k) # None
         THEN question_delimiter_pattern(t, k)
         ELSE SearchDelimiter(t, k + 1)

\* variant: $ taken for \Z, the very end of the text only
AtDollarStrict(t, k) == k = Len(t) + 1

\* $ without re.MULTILINE: the end of the text, or just before a final newline
AtDollar(t, k) == k = Len(t) + 1 \/ (k = Len(t) /\ t[k] = "\n")

\* variant: a greedy body .* runs to the end of the text
GreedyBodyEnd(t, k) == Len(t) + 1

\* .*?(?=Question Number\s*:|$)  from position k: the lazy body stops at the
\* first position where the lookahead holds
RECURSIVE LazyBodyEnd(_, _)
LazyBodyEnd(t, k) ==
    IF LabelColon(t, k, "QN") # 0 \/ AtDollar(t, k) THEN k
    ELSE LazyBodyEnd(t, k + 1)

\* re.findall(question_block_pattern, text, DOTALL | IGNORECASE): the spans
\* [start, end) of the non-overlapping matches, scanning from position k
RECURSIVE question_block_pattern(_, _)
question_block_pattern(t, k) ==
    IF k > Len(t) THEN <<>>
    ELSE LET a == LabelColon(t, k, "QN") IN
         IF a = 0 THEN question_block_pattern(t, k + 1)
         ELSE LET e == LazyBodyEnd(t, a)
              IN  <<[start |-> k, end |-> e]>> \o question_block_pattern(t, e)

\* the loop body of extract_question_blocks for the matches n..Len(spans)
\* answers is what query_ollama returns on its successive calls; it is called
\* for the blocks the pattern cascade accepts no candidate of
RECURSIVE BlocksFrom(_, _, _, _)
BlocksFrom(t, spans, n, answers) ==
    IF n > Len(spans) THEN <<>>
    ELSE LET block == SubSeq(t, spans[n].start, spans[n].end - 1)
             delimiter_match == SearchDelimiter(block, 1)
         IN  (IF delimiter_match # None
              THEN <<[question_number |-> IntOf(delimiter_match.group1),
                      question_id     |-> delimiter_match.group2,
                      question_text   |-> extract_question_text(block,
                                              IF Len(answers) > 0 THEN Head(answers)
                                              ELSE <<>>),
                      full_block      |-> block,
                      block_index     |-> n - 1]>>
              ELSE <<>>)
             \o BlocksFrom(t, spans, n + 1,
                           IF delimiter_match # None /\ FirstAccepted(block, 1) = 0
                           THEN Tail(answers) ELSE answers)

extract_question_blocks(text, answers) ==
    BlocksFrom(text, question_block_pattern(text, 1), 1, answers)

\* the number of times extract_question_blocks(text) queries the AI collaborator
NumQueries(text) ==
    LET spans == question_block_pattern(text, 1)
    IN  Cardinality({n \in 1..Len(spans) :
            LET block == SubSeq(text, spans[n].start, spans[n].end - 1)
            IN  SearchDelimiter(block, 1) # None /\ FirstAccepted(block, 1) = 0})

----------------------------------------------------------------------------
(* extract_question_image *)

LeadIn == 20

MinGap == 50

Buffer == 15

Overflow == 300

\* variant: the bottom stops above the next header whatever its distance
ClipRectNoMinGap(page_rect, question_bbox, next_question_bbox) ==
    IF question_bbox = None
    THEN [x0 |-> 0, y0 |-> 0, x1 |-> page_rect.width, y1 |-> page_rect.height]
    ELSE [x0 |-> 0,
          y0 |-> Max(0, question_bbox.y0 - LeadIn),
          x1 |-> page_rect.width,
          y1 |-> IF next_question_bbox # None
                 THEN next_question_bbox.y0 - Buffer
                 ELSE Min(page_rect.height, question_bbox.y1 + Overflow)]

\* the clip rectangle of extract_question_image
ClipRect(page_rect, question_bbox, next_question_bbox) ==
    IF question_bbox = None
    THEN [x0 |-> 0, y0 |-> 0, x1 |-> page_rect.width, y1 |-> page_rect.height]
    ELSE [x0 |-> 0,
          y0 |-> Max(0, question_bbox.y0 - LeadIn),
          x1 |-> page_rect.width,
          y1 |-> IF next_question_bbox # None
                 THEN Max(question_bbox.y1 + MinGap, next_question_bbox.y0 - Buffer)
                 ELSE Min(page_rect.height, question_bbox.y1 + Overflow)]

\* variant: the except branch returns True as well
extract_question_image_swallow(page_rect, question_bbox, next_question_bbox, render_ok) ==
    [clip |-> ClipRect(page_rect, question_bbox, next_question_bbox),
     ok   |-> TRUE]

\* the value returned: True when get_pixmap and pix.save raise nothing (render_ok),
\* False from the except branch
extract_question_image(page_rect, question_bbox, next_question_bbox, render_ok) ==
    [clip |-> ClipRect(page_rect, question_bbox, next_question_bbox),
     ok   |-> render_ok]

----------------------------------------------------------------------------
(* The input texts *)

Delim(num, id) == <<"QN", " ", ":", " ">> \o num \o <<" ", "QI", " ", ":", " ">> \o id

Pieces ==
    { <<"x">>, <<"\n">>, <<"2">>, <<"QN">>,
      Delim(<<"1">>, <<"7">>),
      Delim(<<"2">>, <<"8">>),
      Delim(<<"1", "2">>, <<"9">>),
      <<"QN", ":", "0", "3", "\n", "QI", ":", "7">>,
      <<"QN", " ", ":", " ", "4">> }

RECURSIVE Concats(_, _)
Concats(S, n) ==
    IF n = 0 THEN {<<>>}
    ELSE LET prev == Concats(S, n - 1)
         IN  prev \cup {p \o q : p \in prev, q \in S}

Texts == Concats(Pieces, MaxPieces)

----------------------------------------------------------------------------
(* The PDF document and the fitz calls process_pdf makes on it *)

\* a PDF is written as pieces of text and page breaks "PB"
DocPieces ==
    { <<"PB">>, <<"x">>,
      Delim(<<"1">>, <<"7">>),
      Delim(<<"1", "2">>, <<"9">>),
      <<"QN", ":", "0", "3", "\n", "QI", ":", "7">>,
      <<"QN", " ", ":", " ", "4">> }

\* the pages of a flat token sequence: it is cut at every page break
RECURSIVE SplitPages(_, _)
SplitPages(flat, page) ==
    IF Len(flat) = 0 THEN <<page>>
    ELSE IF Head(flat) = "PB"
         THEN <<page>> \o SplitPages(Tail(flat), <<>>)
         ELSE SplitPages(Tail(flat), Append(page, Head(flat)))

Docs == {SplitPages(flat, <<>>) : flat \in Concats(DocPieces, MaxPieces)}

\* page.rect
PageRect == [width |-> 595, height |-> 842]

\* height of one token's box in the page layout
LineHeight == 14

\* the rectangle of a hit whose first token is token k of the page
BoxAt(k) == [x0 |-> 0, y0 |-> (k - 1) * LineHeight, x1 |-> PageRect.width,
             y1 |-> k * LineHeight]

\* page.search_for(needle): the rectangles of the hits from token k on, in page order
RECURSIVE search_for(_, _, _)
search_for(page, needle, k) ==
    IF k + Len(needle) - 1 > Len(page) THEN <<>>
    ELSE (IF SubSeq(page, k, k + Len(needle) - 1) = needle THEN <<BoxAt(k)>> ELSE <<>>)
         \o search_for(page, needle, k + 1)

\* f"Question Number : {question_number}"
NumberLiteral(question_number) == <<"QN", " ", ":", " ">> \o StrOf(question_number)

\* f"Question Id : {question_id}"
IdLiteral(question_id) == <<"QI", " ", ":", " ">> \o question_id

\* variant: the Question Id strategy comes first
find_question_on_page_id_first(page, question_number, question_id) ==
    LET byNumber == search_for(page, NumberLiteral(question_number), 1)
        byId     == search_for(page, IdLiteral(question_id), 1)
    IN  IF Len(byId) > 0 THEN byId[1]
        ELSE IF Len(byNumber) > 0 THEN byNumber[1]
        ELSE None

find_question_on_page(page, question_number, question_id) ==
    LET byNumber == search_for(page, NumberLiteral(question_number), 1)
        byId     == search_for(page, IdLiteral(question_id), 1)
    IN  IF Len(byNumber) > 0 THEN byNumber[1]
        ELSE IF Len(byId) > 0 THEN byId[1]
        ELSE None

\* full_text: every page's text followed by a newline
RECURSIVE FullText(_)
FullText(d) == IF Len(d) = 0 THEN <<>> ELSE Head(d) \o <<"\n">> \o FullText(Tail(d))

\* variant: a block found on no page is given the first page
RECURSIVE FindPageOrFirst(_, _, _)
FindPageOrFirst(d, search_text, page_num) ==
    IF page_num >= Len(d) THEN 0
    ELSE IF Len(search_for(d[page_num + 1], search_text, 1)) > 0 THEN page_num
         ELSE FindPageOrFirst(d, search_text, page_num + 1)

\* variant: the pages are searched for the label without the number
RECURSIVE FindPageByLabel(_, _, _)
FindPageByLabel(d, search_text, page_num) ==
    IF page_num >= Len(d) THEN -1
    ELSE IF Len(search_for(d[page_num + 1], SubSeq(search_text, 1, 4), 1)) > 0
         THEN page_num
         ELSE FindPageByLabel(d, search_text, page_num + 1)

\* variant: the page loop without its break keeps the last page with a hit
RECURSIVE FindPageNoBreak(_, _, _)
FindPageNoBreak(d, search_text, page_num) ==
    IF page_num >= Len(d) THEN -1
    ELSE LET later == FindPageNoBreak(d, search_text, page_num + 1)
         IN  IF later # -1 THEN later
             ELSE IF Len(search_for(d[page_num + 1], search_text, 1)) > 0 THEN page_num
             ELSE -1

\* the page loop of process_pdf (lines 231-237) from page_num on: the index of the
\* first page with a hit, -1 when the loop ends without break
RECURSIVE FindPage(_, _, _)
FindPage(d, search_text, page_num) ==
    IF page_num >= Len(d) THEN -1
    ELSE IF Len(search_for(d[page_num + 1], search_text, 1)) > 0 THEN page_num
         ELSE FindPage(d, search_text, page_num + 1)

----------------------------------------------------------------------------
(* File names *)

Punct == {":", ".", "?"}

\* re.sub(r'[-\s]+', '_', s)
RECURSIVE CollapseWs(_)
CollapseWs(t) ==
    IF Len(t) = 0 THEN <<>>
    ELSE IF IsWs(Head(t)) THEN <<"_">> \o CollapseWs(LStrip(t))
         ELSE <<Head(t)>> \o CollapseWs(Tail(t))

\* str.strip('_')
StripUnderscore(t) ==
    LET a == IF Len(t) > 0 /\ Head(t) = "_" THEN Tail(t) ELSE t
    IN  IF Len(a) > 0 /\ a[Len(a)] = "_" THEN SubSeq(a, 1, Len(a) - 1) ELSE a

\* re.sub(r'[^\w\s-]', '', s)
RECURSIVE DropPunct(_)
DropPunct(t) ==
    IF Len(t) = 0 THEN <<>>
    ELSE (IF Head(t) \in Punct THEN <<>> ELSE <<Head(t)>>) \o DropPunct(Tail(t))

SafeText(question_text) ==
    StripUnderscore(CollapseWs(DropPunct(Slice(question_text, 40))))

\* f"{n:03d}"
Pad3(n) ==
    LET ds == StrOf(n)
    IN  IF Len(ds) = 1 THEN <<"0", "0">> \o ds
        ELSE IF Len(ds) = 2 THEN <<"0">> \o ds
        ELSE ds

ImgFilename(question_data, question_page_num) ==
    <<"Q">> \o Pad3(question_data.question_number) \o <<"_P">>
        \o StrOf(question_page_num + 1) \o <<"_">>
        \o SafeText(question_data.question_text) \o <<".png">>

output_dir == "temp"

\* os.path.join(self.output_dir, name)
PathJoin(name) == <<output_dir, "/">> \o name

ReportPath == PathJoin(<<"extraction_report.txt">>)

ViewerPath == PathJoin(<<"viewer.html">>)

----------------------------------------------------------------------------
(* check_ollama_status *)

model_name == "llama3.2:1b"

\* what requests.get(".../api/tags") does: it raises, or answers a status code and
\* a list of model names
TagsResponses ==
    {[raised |-> TRUE, status_code |-> 0, models |-> <<>>]}
    \cup {[raised |-> FALSE, status_code |-> c, models |-> m] :
            c \in {200, 500},
            m \in {<<>>, <<model_name>>, <<"other">>, <<"other", model_name>>}}

\* ', '.join(model_names)
RECURSIVE Join(_)
Join(names) ==
    IF Len(names) = 0 THEN <<>>
    ELSE IF Len(names) = 1 THEN names
    ELSE <<Head(names), ", ">> \o Join(Tail(names))

\* variant: the list of models is not looked at
check_ollama_status_any_model(response) ==
    IF response.raised
    THEN [status |-> FALSE, message |-> <<"Connection error: ", "e">>]
    ELSE IF response.status_code # 200
    THEN [status |-> FALSE, message |-> <<"Ollama is not running">>]
    ELSE [status |-> TRUE, message |-> <<"Ollama ready">>]

check_ollama_status(response) ==
    IF response.raised
    THEN [status |-> FALSE, message |-> <<"Connection error: ", "e">>]
    ELSE IF response.status_code # 200
    THEN [status |-> FALSE, message |-> <<"Ollama is not running">>]
    ELSE IF \A k \in 1..Len(response.models) : response.models[k] # model_name
    THEN [status |-> FALSE,
          message |-> <<"Model ", model_name, " not found. Available: ">>
                          \o Join(response.models)]
    ELSE [status |-> TRUE, message |-> <<"Ollama ready">>]

----------------------------------------------------------------------------
(* process_pdf *)

\* the answers the text endpoint gives to query_ollama: none (a failed request)
\* or a usable question
AiResponses ==
    { <<>>,
      <<"Q:", " ", "x", "x", "x", "x", "x", "x", "x", "x", "x", "x", "?">> }

NoReport == [written |-> FALSE, questions |-> <<>>]

\* variant: the message of the failed fitz.open is used again
NoQuestionsMessageReused == <<"Cannot open PDF: ", "e">>

NoQuestionsMessage == <<"No questions found using structural pattern">>

\* variant: nothing is written when no question was extracted
generate_reports_unless_empty(questions) ==
    IF Len(questions) = 0
    THEN [written |-> {}, report |-> NoReport, report_path |-> <<>>,
          viewer_path |-> <<>>]
    ELSE [written     |-> {ReportPath, ViewerPath},
          report      |-> [written |-> TRUE, questions |-> questions],
          report_path |-> ReportPath,
          viewer_path |-> ViewerPath]

\* generate_reports: the two files it writes, the questions it lists in them, and
\* the paths it returns
generate_reports(questions) ==
    [written     |-> {ReportPath, ViewerPath},
     report      |-> [written |-> TRUE, questions |-> questions],
     report_path |-> ReportPath,
     viewer_path |-> ViewerPath]

\* variant: the output directory is made anew before a file is written
WriteFileAfterClean(dir, path) == {path}

\* open(path, 'w') and pix.save(path): the file is created, or written over when
\* it exists; no other file of the directory is touched
WriteFile(dir, path) == dir \cup {path}

\* before the first run: no earlier run to compare with, the output directory is
\* empty when the run starts, and nothing was cleaned since the run ended
NoHistory == [previous |-> None, started_empty |-> TRUE, finished |-> None]

NewResults ==
    [success |-> FALSE, message |-> <<>>, questions_found |-> 0,
     questions_extracted |-> 0, output_files |-> <<>>,
     report_path |-> <<>>, viewer_path |-> <<>>]

Init ==
    /\ pc = "check_ollama"
    /\ doc \in Docs
    /\ tags_response = None
    /\ open_state = "not_called"
    /\ full_text = <<>>
    /\ question_blocks = <<>>
    /\ i = 0
    /\ extracted_questions = <<>>
    /\ results = NewResults
    /\ crops = <<>>
    /\ files = {}
    /\ report = NoReport
    /\ crop_in = None
    /\ crop_out = None
    /\ ai_answers = <<>>
    /\ history = NoHistory
    /\ text_in = None
    /\ text_out = None
    /\ workflow_results = None

\* lines 196-200
CheckOllama ==
    /\ pc = "check_ollama"
    /\ \E response \in TagsResponses :
         LET ollama_status == check_ollama_status(response)
         IN  /\ tags_response' = response
             /\ IF ~ollama_status.status
                THEN /\ results' = [results EXCEPT !.message =
                                       <<"Ollama Error: ">> \o ollama_status.message]
                     /\ pc' = "done"
                ELSE /\ results' = results
                     /\ pc' = "open_pdf"
    /\ UNCHANGED <<workflow_results,
                   doc, open_state, full_text, question_blocks, i, extracted_questions,
                   crops, files, report, crop_in, crop_out,
                   history, text_in, text_out, ai_answers>>

\* lines 202-207
OpenPdf ==
    /\ pc = "open_pdf"
    /\ \E ok \in BOOLEAN :
         /\ open_state' = IF ok THEN "opened" ELSE "raised"
         /\ IF ~ok
            THEN /\ results' = [results EXCEPT !.message = <<"Cannot open PDF: ", "e">>]
                 /\ pc' = "done"
            ELSE /\ results' = results
                 /\ pc' = "extract_blocks"
    /\ UNCHANGED <<workflow_results, doc, tags_response, full_text, question_blocks, i,
                   extracted_questions, crops, files, report, crop_in, crop_out,
                   history, text_in, text_out, ai_answers>>

\* lines 209-224
ExtractBlocks ==
    /\ pc = "extract_blocks"
    /\ LET text == FullText(doc)
       IN  \E answers \in [1..NumQueries(text) -> AiResponses] :
             LET blocks == extract_question_blocks(text, answers)
             IN  /\ full_text' = text
                 /\ question_blocks' = blocks
                 /\ ai_answers' = answers
                 /\ IF Len(blocks) = 0
                    THEN /\ results' = [results EXCEPT
                                !.questions_found = 0,
                                !.message = NoQuestionsMessage]
                         /\ pc' = "done"
                    ELSE /\ results' = [results EXCEPT !.questions_found = Len(blocks)]
                         /\ pc' = "loop"
    /\ i' = 0
    /\ extracted_questions' = <<>>
    /\ UNCHANGED <<workflow_results,
                   doc, tags_response, open_state, crops, files, report, crop_in,
                   crop_out,
                   history, text_in, text_out>>

\* lines 226-240: no page holds the block's search text, the loop continues
SkipBlock ==
    /\ pc = "loop"
    /\ i < Len(question_blocks)
    /\ FindPage(doc, NumberLiteral(question_blocks[i + 1].question_number), 0) = -1
    /\ i' = i + 1
    /\ UNCHANGED <<workflow_results,
                   pc, doc, tags_response, open_state, full_text, question_blocks,
                   extracted_questions, results, crops, files, report, crop_in,
                   crop_out,
                   history, text_in, text_out, ai_answers>>

\* lines 226-280: the block's page is found and extract_question_image is called
CropBlock ==
    /\ pc = "loop"
    /\ i < Len(question_blocks)
    /\ LET question_data     == question_blocks[i + 1]
           question_page_num == FindPage(doc, NumberLiteral(question_data.question_number), 0)
       IN  /\ question_page_num # -1
           /\ LET question_page == doc[question_page_num + 1]
                  question_bbox == find_question_on_page(question_page,
                                       question_data.question_number,
                                       question_data.question_id)
                  next_question_bbox ==
                      IF i + 1 < Len(question_blocks)
                      THEN find_question_on_page(question_page,
                               question_blocks[i + 2].question_number,
                               question_blocks[i + 2].question_id)
                      ELSE None
                  img_filename == ImgFilename(question_data, question_page_num)
                  img_path == PathJoin(img_filename)
              IN  \E render_ok \in BOOLEAN :
                    LET out == extract_question_image(PageRect, question_bbox,
                                                      next_question_bbox, render_ok)
                    IN  /\ crops' = Append(crops,
                               [block |-> i, question_number |-> question_data.question_number,
                                page_num |-> question_page_num,
                                question_bbox |-> question_bbox,
                                next_question_bbox |-> next_question_bbox,
                                clip |-> out.clip, path |-> img_path,
                                rendered |-> render_ok, ok |-> out.ok])
                        /\ files' = IF render_ok THEN WriteFile(files, img_path)
                                     ELSE files
                        /\ extracted_questions' =
                               IF out.ok
                               THEN Append(extracted_questions,
                                       [question_number |-> question_data.question_number,
                                        question_id |-> question_data.question_id,
                                        page |-> question_page_num + 1,
                                        question_text |-> question_data.question_text,
                                        filename |-> img_filename,
                                        file_path |-> img_path])
                               ELSE extracted_questions
                        /\ results' =
                               IF out.ok
                               THEN [results EXCEPT !.output_files = Append(@, img_path)]
                               ELSE results
    /\ i' = i + 1
    /\ UNCHANGED <<workflow_results,
                   pc, doc, tags_response, open_state, full_text, question_blocks,
                   report, crop_in, crop_out,
                   history, text_in, text_out, ai_answers>>

\* lines 282-294, with generate_reports (lines 296-355)
GenerateReports ==
    /\ pc = "loop"
    /\ i = Len(question_blocks)
    /\ LET report_info == generate_reports(extracted_questions)
       IN  /\ files' = WriteFile(WriteFile(files, report_info.report_path),
                                  report_info.viewer_path)
           /\ report' = report_info.report
           /\ results' = [results EXCEPT
                  !.questions_extracted = Len(extracted_questions),
                  !.report_path = report_info.report_path,
                  !.viewer_path = report_info.viewer_path,
                  !.success = TRUE,
                  !.message = <<"Successfully extracted ">>
                                  \o StrOf(Len(extracted_questions)) \o <<" questions">>]
    /\ pc' = "done"
    /\ UNCHANGED <<workflow_results,
                   doc, tags_response, open_state, full_text, question_blocks, i,
                   extracted_questions, crops, crop_in, crop_out,
                   history, text_in, text_out, ai_answers>>

Next == CheckOllama \/ OpenPdf \/ ExtractBlocks \/ SkipBlock \/ CropBlock \/ GenerateReports

Spec == Init /\ [][Next]_vars

----------------------------------------------------------------------------
(* extract_question_blocks applied to an arbitrary text *)

InitSeg ==
    /\ pc = "seg_call"
    /\ full_text \in Texts
    /\ question_blocks = <<>>
    /\ doc = <<>>
    /\ tags_response = None
    /\ open_state = "not_called"
    /\ i = 0
    /\ extracted_questions = <<>>
    /\ results = NewResults
    /\ crops = <<>>
    /\ files = {}
    /\ report = NoReport
    /\ crop_in = None
    /\ crop_out = None
    /\ ai_answers = <<>>
    /\ history = NoHistory
    /\ text_in = None
    /\ text_out = None
    /\ workflow_results = None

SegCall ==
    /\ pc = "seg_call"
    /\ \E answers \in [1..NumQueries(full_text) -> AiResponses] :
         /\ question_blocks' = extract_question_blocks(full_text, answers)
         /\ ai_answers' = answers
    /\ pc' = "seg_done"
    /\ UNCHANGED <<workflow_results,
                   doc, tags_response, open_state, full_text, i, extracted_questions,
                   results, crops, files, report, crop_in, crop_out,
                   history, text_in, text_out>>

NextSeg == SegCall

SpecSeg == InitSeg /\ [][NextSeg]_vars

----------------------------------------------------------------------------
(* extract_question_image applied to arbitrary boxes *)

PageHeights == {300, 842}

Ys(height) == {y \in 0..height : y % GridStep = 0} \cup {height}

Boxes(height) ==
    {[x0 |-> 0, y0 |-> a, x1 |-> PageRect.width, y1 |-> b] : a, b \in Ys(height)}

CropInputs ==
    UNION {{[page_rect |-> [width |-> PageRect.width, height |-> h],
             question_bbox |-> q, next_question_bbox |-> n] :
                q \in {b \in Boxes(h) : b.y0 < b.y1} \cup {None},
                n \in {b \in Boxes(h) : b.y0 < b.y1} \cup {None}} : h \in PageHeights}

InitCrop ==
    /\ pc = "crop_call"
    /\ crop_in \in CropInputs
    /\ crop_out = None
    /\ full_text = <<>>
    /\ question_blocks = <<>>
    /\ doc = <<>>
    /\ tags_response = None
    /\ open_state = "not_called"
    /\ i = 0
    /\ extracted_questions = <<>>
    /\ results = NewResults
    /\ crops = <<>>
    /\ files = {}
    /\ report = NoReport
    /\ ai_answers = <<>>
    /\ history = NoHistory
    /\ text_in = None
    /\ text_out = None
    /\ workflow_results = None

CropCall ==
    /\ pc = "crop_call"
    /\ \E render_ok \in BOOLEAN :
         crop_out' = extract_question_image(crop_in.page_rect, crop_in.question_bbox,
                                            crop_in.next_question_bbox, render_ok)
    /\ pc' = "crop_done"
    /\ UNCHANGED <<workflow_results,
                   doc, tags_response, open_state, full_text, question_blocks, i,
                   extracted_questions, results, crops, files, report, crop_in,
                   history, text_in, text_out, ai_answers>>

NextCrop == CropCall

SpecCrop == InitCrop /\ [][NextCrop]_vars

----------------------------------------------------------------------------
(* process_pdf run again and again on one PDF, with clean_temp_directory called  *)
(* between runs or not                                                           *)

\* the PDFs run repeatedly: one block whose text needs the AI collaborator, one
\* block whose text the patterns give, two blocks on two pages, the same number
\* twice on a page, a block whose number is written on no page as the page
\* search spells it, and a page without question
RunDocs ==
    { << Delim(<<"1">>, <<"7">>) >>,
      << Delim(<<"1">>, <<"7">>) \o <<"\n", "What is", "x10", "?">> >>,
      << Delim(<<"1">>, <<"7">>) \o <<"\n", "What is", "x10", "?">>,
         Delim(<<"1", "2">>, <<"9">>) >>,
      << Delim(<<"1">>, <<"7">>) \o <<"\n">> \o Delim(<<"1">>, <<"8">>) >>,
      << <<"QN", ":", "0", "3", "\n", "QI", ":", "7">> >>,
      << <<"x">> >> }

\* the image files of a directory
Images(dir) == dir \ {ReportPath, ViewerPath}

\* what a finished run leaves to compare the next run with, taken before the
\* directory is cleaned
Snapshot ==
    [started_empty |-> history.started_empty,
     ollama_status |-> check_ollama_status(tags_response).status,
     open_state    |-> open_state,
     ai_answers    |-> ai_answers,
     rendered      |-> [k \in 1..Len(crops) |-> crops[k].rendered],
     images        |-> Images(files),
     report        |-> report]

\* clean_temp_directory (lines 357-366): every file is unlinked, except those
\* whose os.unlink raises
clean_temp_directory(dir, failed) == dir \cap failed

InitRuns ==
    /\ pc = "check_ollama"
    /\ doc \in RunDocs
    /\ tags_response = None
    /\ open_state = "not_called"
    /\ full_text = <<>>
    /\ question_blocks = <<>>
    /\ i = 0
    /\ extracted_questions = <<>>
    /\ results = NewResults
    /\ crops = <<>>
    /\ files = {}
    /\ report = NoReport
    /\ crop_in = None
    /\ crop_out = None
    /\ ai_answers = <<>>
    /\ history = NoHistory
    /\ text_in = None
    /\ text_out = None
    /\ workflow_results = None

\* process_pdf is called again on the same PDF (lines 184-194)
StartRun ==
    /\ pc = "done"
    /\ history' = [previous |-> IF history.finished # None THEN history.finished
                                 ELSE Snapshot,
                    started_empty |-> files = {},
                    finished |-> None]
    /\ pc' = "check_ollama"
    /\ tags_response' = None
    /\ open_state' = "not_called"
    /\ full_text' = <<>>
    /\ question_blocks' = <<>>
    /\ i' = 0
    /\ extracted_questions' = <<>>
    /\ results' = NewResults
    /\ crops' = <<>>
    /\ ai_answers' = <<>>
    /\ UNCHANGED <<workflow_results, doc, files, report, crop_in, crop_out, text_in,
                   text_out>>

\* clean_temp_directory is called between two runs
Clean ==
    /\ pc = "done"
    /\ files # {}
    /\ \E failed \in {{}} \cup {{f} : f \in files} :
         /\ files' = clean_temp_directory(files, failed)
         /\ report' = IF ReportPath \in failed THEN report ELSE NoReport
    /\ history' = IF history.finished = None
                  THEN [history EXCEPT !.finished = Snapshot]
                  ELSE history
    /\ UNCHANGED <<workflow_results,
                   pc, doc, tags_response, open_state, full_text, question_blocks, i,
                   extracted_questions, results, crops, crop_in, crop_out,
                   ai_answers, text_in, text_out>>

NextRuns ==
    \/ CheckOllama \/ OpenPdf \/ ExtractBlocks \/ SkipBlock \/ CropBlock
    \/ GenerateReports \/ StartRun \/ Clean

SpecRuns == InitRuns /\ [][NextRuns]_vars

----------------------------------------------------------------------------
(* extract_question_text called for one block after another, pattern by pattern *)

\* the number of text pieces a block is made of
MaxTextPieces == 3

\* a short question, a long one, questions whose question mark stands on the next
\* line, the two label lines followed by a blank line, plain text, and the
\* delimiter a block begins with followed by plain text
TextPieces ==
    { <<"x", "?">>,
      <<"What is", "x10", "?">>,
      <<"What is", "x10", "\n", "?">>,
      <<"In ", "How many", "x", "x", "x", "x", "\n", "?">>,
      <<"Which of", "\n", "?">>,
      <<"If ", "x10", "x", "x", "\n", "?">>,
      <<"QL", ":", "\n", "\n">>,
      <<"Based on", "answer", "\n", "\n">>,
      <<"\n">>, <<" ">>, <<"x10">>,
      Delim(<<"1">>, <<"7">>) \o <<" ", "x10", "x10">> }

TextBlocks == Concats(TextPieces, MaxTextPieces)

\* what requests.post(ollama_url) does: it raises (connection error, timeout), or
\* answers a status code and a response text
GenerateOutcomes ==
    { [raised |-> TRUE,  status_code |-> 0,   response |-> <<>>],
      [raised |-> FALSE, status_code |-> 500, response |-> <<"x10", "x", "?">>],
      [raised |-> FALSE, status_code |-> 200,
       response |-> <<"Q:", " ", "x10", "x", "?", "\n">>],
      [raised |-> FALSE, status_code |-> 200, response |-> <<"I cannot", " ", "x10">>],
      [raised |-> FALSE, status_code |-> 200, response |-> <<"x", "?">>] }

\* variant: the status code is not looked at
query_ollama_any_status(outcome) ==
    IF ~outcome.raised THEN outcome.response ELSE <<>>

\* query_ollama: the response text of a 200 answer, None (written <<>>) otherwise
query_ollama(outcome) ==
    IF ~outcome.raised /\ outcome.status_code = 200 THEN outcome.response ELSE <<>>

\* the progress of one call: the index of the pattern to try next, the patterns
\* tried so far with their matches and candidate, the outcomes of the queries
\* made, and the question returned
NewCall(earlier_failed) ==
    [n |-> 1, tried |-> <<>>, queries |-> <<>>, question |-> <<>>,
     earlier_failed |-> earlier_failed]

InitText ==
    /\ pc = "text_pattern"
    /\ text_in \in {[block |-> b] : b \in TextBlocks}
    /\ text_out = NewCall(FALSE)
    /\ workflow_results = None
    /\ doc = <<>>
    /\ tags_response = None
    /\ open_state = "not_called"
    /\ full_text = <<>>
    /\ question_blocks = <<>>
    /\ i = 0
    /\ extracted_questions = <<>>
    /\ results = NewResults
    /\ crops = <<>>
    /\ files = {}
    /\ report = NoReport
    /\ crop_in = None
    /\ crop_out = None
    /\ ai_answers = <<>>
    /\ history = NoHistory

\* lines 105-110: one turn of the loop over the patterns
TryPattern ==
    /\ pc = "text_pattern"
    /\ LET pattern  == patterns[text_out.n]
           matches  == FindAll(pattern, text_in.block, 1)
           question == Candidate(pattern, text_in.block)
           entry    == [pattern |-> pattern, matches |-> matches,
                        candidate |-> question]
       IN  IF Len(matches) > 0 /\ Accepted(question)
           THEN /\ text_out' = [text_out EXCEPT !.tried = Append(@, entry),
                                                !.question = question]
                /\ pc' = "text_done"
           ELSE /\ text_out' = [text_out EXCEPT !.tried = Append(@, entry),
                                                !.n = @ + 1]
                /\ pc' = IF text_out.n = Len(patterns) THEN "text_ai"
                         ELSE "text_pattern"
    /\ UNCHANGED <<workflow_results,
                   doc, tags_response, open_state, full_text, question_blocks, i,
                   extracted_questions, results, crops, files, report, crop_in,
                   crop_out, ai_answers, history, text_in>>

\* lines 112-113 with extract_question_with_ai (lines 115-133)
AskAi ==
    /\ pc = "text_ai"
    /\ \E outcome \in GenerateOutcomes :
         text_out' = [text_out EXCEPT
             !.queries = Append(@, outcome),
             !.question = extract_question_with_ai(text_in.block,
                                                   query_ollama(outcome))]
    /\ pc' = "text_done"
    /\ UNCHANGED <<workflow_results,
                   doc, tags_response, open_state, full_text, question_blocks, i,
                   extracted_questions, results, crops, files, report, crop_in,
                   crop_out, ai_answers, history, text_in>>

\* lines 71-79: extract_question_blocks goes on to its next block, a block of
\* one piece
NextBlock ==
    /\ pc = "text_done"
    /\ \E b \in TextPieces : text_in' = [block |-> b]
    /\ text_out' = NewCall(text_out.earlier_failed
                           \/ \E k \in 1..Len(text_out.queries) :
                                query_ollama(text_out.queries[k]) = <<>>)
    /\ pc' = "text_pattern"
    /\ UNCHANGED <<workflow_results,
                   doc, tags_response, open_state, full_text, question_blocks, i,
                   extracted_questions, results, crops, files, report, crop_in,
                   crop_out, ai_answers, history>>

NextText == TryPattern \/ AskAi \/ NextBlock

SpecText == InitText /\ [][NextText]_vars

----------------------------------------------------------------------------
(* main (src/main.py): process_pdf, then run_complete_workflow of              *)
(* OllamaDeepSeekSolver (src/ollama_solver.py) on the directory the images     *)
(* were written to                                                             *)

images_dir == "temp"

latex_dir == "latex_output"

\* what the image directory may hold before main starts: an image left by an
\* earlier extraction, and a file that is no image
PriorFiles ==
    { PathJoin(<<"Q", "0", "0", "9", "_P", "1", "_", "x", ".png">>),
      PathJoin(<<"x", ".txt">>) }

\* os.listdir: the name of a file without its directory
Basename(path) == SubSeq(path, 3, Len(path))

\* f.lower().endswith('.png')
IsPng(f) == Len(f) > 0 /\ f[Len(f)] \in {".png", ".PNG"}

\* the code point of the first character of a token of a file name
Ord(c) ==
    IF c \in {".png", ".PNG", ".txt", ".html"} THEN 46
    ELSE IF c \in Digits THEN 48 + IntOf(<<c>>)
    ELSE IF c \in {"_", "_P"} THEN 95
    ELSE IF c \in {"x", "x10", "extraction_report", "viewer"} THEN 120
    ELSE 81

\* str < str on file names, token after token
RECURSIVE Before(_, _)
Before(a, b) ==
    IF Len(a) = 0 THEN Len(b) > 0
    ELSE IF Len(b) = 0 THEN FALSE
    ELSE IF Ord(Head(a)) # Ord(Head(b)) THEN Ord(Head(a)) < Ord(Head(b))
    ELSE Before(Tail(a), Tail(b))

\* sorted(names)
RECURSIVE sorted(_)
sorted(names) ==
    IF names = {} THEN <<>>
    ELSE LET least == CHOOSE a \in names : \A b \in names : ~Before(b, a)
         IN  <<least>> \o sorted(names \ {least})

\* os.path.join(self.latex_dir, name)
LatexPath(name) == <<latex_dir, "/">> \o name

\* the three sample solutions written when the directory holds no image
\* (lines 194-207)
SamplePages ==
    [k \in 1..3 |-> LatexPath(<<"Q">> \o Pad3(k) \o <<"_sample", ".tex">>)]

\* the loop of lines 211-230 from image k on: a page is written for image k unless
\* the answer of Ollama to it was empty
RECURSIVE LatexPages(_, _, _)
LatexPages(image_files, k, empty_answers) ==
    IF k > Len(image_files) THEN <<>>
    ELSE LET img_file == image_files[k]
             latex_filename == <<"Q">> \o Pad3(k) \o <<"_">>
                                   \o SubSeq(img_file, 1, Len(img_file) - 1)
                                   \o <<".tex">>
         IN  (IF img_file \in empty_answers THEN <<>>
              ELSE <<LatexPath(latex_filename)>>)
                 \o LatexPages(image_files, k + 1, empty_answers)

\* process_all_images (lines 160-232) on a directory that exists: the images are
\* the .png files of the directory, whoever wrote them
process_all_images(dir, empty_answers) ==
    LET image_files == sorted({Basename(f) : f \in {g \in dir : IsPng(g)}})
    IN  IF Len(image_files) = 0 THEN SamplePages
        ELSE LatexPages(image_files, 1, empty_answers)

CombinedTex == LatexPath(<<"complete_question_bank", ".tex">>)

CombinedHtml == LatexPath(<<"complete_question_bank", ".html">>)

\* run_complete_workflow (lines 541-576): the files it leaves in latex_dir and what
\* it returns
run_complete_workflow(dir, empty_answers, html_ok) ==
    LET latex_pages == process_all_images(dir, empty_answers)
        pages       == {latex_pages[k] : k \in 1..Len(latex_pages)}
    IN  IF Len(latex_pages) = 0
        THEN [latex_pages |-> latex_pages, written |-> pages, returned |-> None]
        ELSE IF html_ok
        THEN [latex_pages |-> latex_pages,
              written     |-> pages \cup {CombinedTex, CombinedHtml},
              returned    |-> [html_path       |-> CombinedHtml,
                               latex_dir       |-> latex_dir,
                               total_questions |-> Len(latex_pages)]]
        ELSE [latex_pages |-> latex_pages,
              written     |-> pages \cup {CombinedTex},
              returned    |-> None]

InitDriver ==
    /\ pc = "check_ollama"
    /\ doc \in RunDocs
    /\ tags_response = None
    /\ open_state = "not_called"
    /\ full_text = <<>>
    /\ question_blocks = <<>>
    /\ i = 0
    /\ extracted_questions = <<>>
    /\ results = NewResults
    /\ crops = <<>>
    /\ files \in SUBSET PriorFiles
    /\ report = NoReport
    /\ crop_in = None
    /\ crop_out = None
    /\ ai_answers = <<>>
    /\ history = NoHistory
    /\ text_in = None
    /\ text_out = None
    /\ workflow_results = None

\* main, lines 33-35: the extraction failed and main exits
ExitOnFailure ==
    /\ pc = "done"
    /\ ~results.success
    /\ pc' = "exit"
    /\ UNCHANGED <<workflow_results, doc, tags_response, open_state, full_text,
                   question_blocks, i, extracted_questions, results, crops, files,
                   report, crop_in, crop_out, ai_answers, history, text_in, text_out>>

\* main, lines 40-48: the solver is run on the directory 'temp'; Ollama answers
\* some images with an empty text, and writing the HTML file succeeds or not
RunCompleteWorkflow ==
    /\ pc = "done"
    /\ results.success
    /\ \E empty_answers \in SUBSET {Basename(f) : f \in {g \in files : IsPng(g)}},
          html_ok \in BOOLEAN :
         workflow_results' = run_complete_workflow(files, empty_answers, html_ok)
    /\ pc' = "workflow_done"
    /\ UNCHANGED <<doc, tags_response, open_state, full_text, question_blocks, i,
                   extracted_questions, results, crops, files, report, crop_in,
                   crop_out, ai_answers, history, text_in, text_out>>

NextDriver ==
    \/ CheckOllama \/ OpenPdf \/ ExtractBlocks \/ SkipBlock \/ CropBlock
    \/ GenerateReports \/ ExitOnFailure \/ RunCompleteWorkflow

SpecDriver == InitDriver /\ [][NextDriver]_vars

----------------------------------------------------------------------------
(* Properties of extract_question_blocks, checked under SpecSeg *)

\* the positions of the text where the whole delimiter matches, in ascending order
RECURSIVE DelimiterOccurrences(_, _)
DelimiterOccurrences(t, k) ==
    IF k > Len(t) THEN <<>>
    ELSE (IF question_delimiter_pattern(t, k) # None THEN <<k>> ELSE <<>>)
         \o DelimiterOccurrences(t, k + 1)

\* C1: a text with N well-formed delimiter occurrences yields exactly N blocks, in
\* document order, the k-th block starting at the k-th delimiter and carrying its
\* number and id.
C1_BlocksMatchDelimiters ==
    pc = "seg_done" =>
        LET occ == DelimiterOccurrences(full_text, 1)
        IN  /\ Len(question_blocks) = Len(occ)
            /\ \A k \in 1..Len(occ) :
                 LET m == question_delimiter_pattern(full_text, occ[k])
                     b == question_blocks[k]
                 IN  /\ b.question_number = IntOf(m.group1)
                     /\ b.question_id = m.group2
                     /\ occ[k] + Len(b.full_block) - 1 <= Len(full_text)
                     /\ SubSeq(full_text, occ[k], occ[k] + Len(b.full_block) - 1)
                            = b.full_block

\* C1 witness: three raw matches, one of them without a Question Id, give two
\* blocks with different numbers
C1_Witness ==
    /\ pc = "seg_done"
    /\ Len(question_blocks) = 2
    /\ question_blocks[1].question_number # question_blocks[2].question_number
    /\ Len(question_block_pattern(full_text, 1)) = 3

RECURSIVE ConcatBlocks(_)
ConcatBlocks(bs) ==
    IF Len(bs) = 0 THEN <<>> ELSE Head(bs).full_block \o ConcatBlocks(Tail(bs))

\* C2 as stated: the full_block values partition the whole input, so that their
\* concatenation in order reproduces the input text.
C2_BlocksPartitionText ==
    pc = "seg_done" => ConcatBlocks(question_blocks) = full_text

\* the last position q <= p where  Question Number\s*:  matches, 0 when there is none
LastPrefixUpTo(t, p) ==
    LET qs == {q \in 1..p : LabelColon(t, q, "QN") # 0}
    IN  IF qs = {} THEN 0 ELSE CHOOSE q \in qs : \A r \in qs : r <= q

\* C2 amended: the full_block values are disjoint spans of the input in document
\* order, each starting at a well-formed delimiter; a character belongs to a block
\* exactly when the last "Question Number :" at or before it heads a well-formed
\* delimiter and the character is not the final newline of the text.
C2_BlocksAreDisjointSpans ==
    pc = "seg_done" =>
        LET occ == DelimiterOccurrences(full_text, 1)
            first(k) == occ[k]
            last(k)  == occ[k] + Len(question_blocks[k].full_block) - 1
        IN  /\ Len(question_blocks) = Len(occ)
            /\ \A k \in 1..Len(occ) :
                 /\ last(k) <= Len(full_text)
                 /\ question_blocks[k].full_block = SubSeq(full_text, first(k), last(k))
            /\ \A k \in 1..(Len(occ) - 1) : last(k) < first(k + 1)
            /\ \A p \in 1..Len(full_text) :
                 (\E k \in 1..Len(occ) : first(k) <= p /\ p <= last(k))
                 <=> LET q == LastPrefixUpTo(full_text, p)
                     IN  /\ q # 0
                         /\ question_delimiter_pattern(full_text, q) # None
                         /\ ~(p = Len(full_text) /\ full_text[p] = "\n")

\* C2 witness: a block preceded by other text and followed by the final newline
C2_Witness ==
    /\ pc = "seg_done"
    /\ Len(question_blocks) >= 1
    /\ DelimiterOccurrences(full_text, 1)[1] > 1
    /\ full_text[Len(full_text)] = "\n"
    /\ ConcatBlocks(question_blocks) # full_text

\* C16 as stated: the block_index of the k-th block returned is k (0-based), so the
\* indices are strictly increasing and contiguous, also for a text with a
\* "Question Number :" that no Question Id follows.
C16_BlockIndexContiguous ==
    pc = "seg_done" =>
        \A k \in 1..Len(question_blocks) : question_blocks[k].block_index = k - 1

----------------------------------------------------------------------------
(* Properties of extract_question_image, checked under SpecCrop *)

\* C4: with a start box the crop spans the full page width, its top is
\* max(0, start.y0 - 20), its bottom is min(page height, start.y1 + 300) without an
\* end box and max(start.y1 + 50, end.y0 - 15) with one, hence at least 50 units
\* below the bottom of the header.
C4_CropGeometry ==
    (pc = "crop_done" /\ crop_in.question_bbox # None) =>
        LET start  == crop_in.question_bbox
            end    == crop_in.next_question_bbox
            height == crop_in.page_rect.height
            clip   == crop_out.clip
        IN  /\ clip.x0 = 0
            /\ clip.x1 = crop_in.page_rect.width
            /\ clip.y0 = (IF start.y0 - 20 > 0 THEN start.y0 - 20 ELSE 0)
            /\ end = None =>
                 clip.y1 = (IF start.y1 + 300 < height THEN start.y1 + 300 ELSE height)
            /\ end # None =>
                 /\ clip.y1 = (IF start.y1 + 50 > end.y0 - 15
                               THEN start.y1 + 50 ELSE end.y0 - 15)
                 /\ clip.y1 >= start.y1 + 50

\* C4 witness: the next header lies less than 65 units below the start box, and
\* the lead-in margin is not clamped
C4_Witness ==
    /\ pc = "crop_done"
    /\ crop_in.question_bbox # None
    /\ crop_in.next_question_bbox # None
    /\ crop_in.question_bbox.y0 > 20
    /\ crop_in.next_question_bbox.y0 >= crop_in.question_bbox.y1
    /\ crop_in.next_question_bbox.y0 - 15 < crop_in.question_bbox.y1 + 50
    /\ crop_out.clip.y1 = crop_in.question_bbox.y1 + 50

WithinPage(box, height) ==
    box = None \/ (0 <= box.y0 /\ box.y0 <= box.y1 /\ box.y1 <= height)

\* C5 as stated: for boxes lying within the page the crop rectangle has a
\* non-negative height and its bottom never exceeds the page height, without an end
\* box and with one.
C5_CropWithinPage ==
    (/\ pc = "crop_done"
     /\ WithinPage(crop_in.question_bbox, crop_in.page_rect.height)
     /\ WithinPage(crop_in.next_question_bbox, crop_in.page_rect.height)) =>
        /\ crop_out.clip.y1 >= crop_out.clip.y0
        /\ crop_out.clip.y1 <= crop_in.page_rect.height

----------------------------------------------------------------------------
(* Properties of process_pdf, checked under Spec *)

\* the text "Question Number : n" the page search is given
NumberText(n) == <<"QN", " ", ":", " ">> \o StrOf(n)

\* the indices of the pages of d that hold needle as a substring
HitPages(d, needle) ==
    {p \in 0..(Len(d) - 1) :
        \E k \in 1..Len(d[p + 1]) :
            /\ k + Len(needle) - 1 <= Len(d[p + 1])
            /\ SubSeq(d[p + 1], k, k + Len(needle) - 1) = needle}

BlockHits(j) == HitPages(doc, NumberText(question_blocks[j + 1].question_number))

\* the calls of extract_question_image made for block j
CropsOf(j) == {c \in 1..Len(crops) : crops[c].block = j}

PreconditionFails(response) ==
    \/ response.raised
    \/ response.status_code # 200
    \/ \A k \in 1..Len(response.models) : response.models[k] # model_name

InBlockLoop == pc = "loop" \/ (pc = "done" /\ Len(question_blocks) > 0)

\* C3: a document whose text holds no delimiter yields no block, and process_pdf
\* ends in failure with found = 0 and a message of its own, different from every
\* precondition-failure and open-failure message, without any crop.
C3_NoDelimiterIsSegmentationFailure ==
    (/\ pc \notin {"check_ollama", "open_pdf", "extract_blocks"}
     /\ open_state = "opened"
     /\ DelimiterOccurrences(FullText(doc), 1) = <<>>) =>
        /\ pc = "done"
        /\ question_blocks = <<>>
        /\ ~results.success
        /\ results.questions_found = 0
        /\ results.questions_extracted = 0
        /\ results.message = <<"No questions found using structural pattern">>
        /\ Head(results.message) \notin {"Ollama Error: ", "Cannot open PDF: "}
        /\ \A r \in TagsResponses :
             results.message # <<"Ollama Error: ">> \o check_ollama_status(r).message
        /\ crops = <<>>
        /\ files = {}
        /\ ~report.written

\* C3 witness: a two-page document with a "Question Number :" that has no
\* Question Id ends with the segmentation message
C3_Witness ==
    /\ pc = "done"
    /\ open_state = "opened"
    /\ Len(doc) >= 2
    /\ \E p \in 1..Len(doc) : \E k \in 1..Len(doc[p]) : doc[p][k] = "QN"
    /\ results.message = NoQuestionsMessage

\* C6: every block processed is resolved to the lowest-indexed page holding
\* "Question Number : n"; when no page holds it, extract_question_image is not
\* called and no image is written for the block, and the loop goes on to the next
\* block.
C6_LowestPageOrSkip ==
    InBlockLoop =>
        /\ \A j \in 0..(i - 1) :
             IF BlockHits(j) = {}
             THEN CropsOf(j) = {}
             ELSE /\ Cardinality(CropsOf(j)) = 1
                  /\ \A c \in CropsOf(j) :
                       /\ crops[c].page_num \in BlockHits(j)
                       /\ \A p \in BlockHits(j) : crops[c].page_num <= p
        /\ \A c \in 1..Len(crops) : crops[c].block < i
        /\ files \ {ReportPath, ViewerPath}
               = {crops[c].path : c \in {k \in 1..Len(crops) : crops[k].rendered}}
        /\ pc = "done" => i = Len(question_blocks) /\ results.success

\* C6 witness: a block found on no page is skipped and a later block is cropped; the
\* run ends after both
C6_Witness ==
    /\ pc = "done"
    /\ \E j \in 0..(Len(question_blocks) - 1) :
         /\ BlockHits(j) = {}
         /\ \E c \in 1..Len(crops) : crops[c].block > j /\ crops[c].page_num > 0

\* whether file name carries the sequence number n: it starts Q<n:03d>_P
CarriesNumber(name, n) ==
    LET tag == <<"Q">> \o Pad3(n) \o <<"_P">>
    IN  Len(name) >= Len(tag) /\ SubSeq(name, 1, Len(tag)) = tag

\* C7: after a successful run questions_found is the number of segmented blocks
\* and questions_extracted the number of blocks resolved to a page and cropped with
\* success, at most questions_found; the number of a block found on no page is
\* carried by no extracted question, file name or output file.
C7_CountsAndSkippedNumbers ==
    (pc = "done" /\ results.success) =>
        /\ results.questions_found = Len(DelimiterOccurrences(full_text, 1))
        /\ results.questions_extracted =
               Cardinality({j \in 0..(Len(question_blocks) - 1) :
                   BlockHits(j) # {} /\ \E c \in CropsOf(j) : crops[c].rendered})
        /\ results.questions_extracted <= results.questions_found
        /\ \A j \in 0..(Len(question_blocks) - 1) :
             BlockHits(j) = {} =>
                LET n == question_blocks[j + 1].question_number
                IN  /\ \A e \in 1..Len(extracted_questions) :
                         /\ extracted_questions[e].question_number # n
                         /\ ~CarriesNumber(extracted_questions[e].filename, n)
                    /\ \A f \in 1..Len(results.output_files) :
                         ~CarriesNumber(SubSeq(results.output_files[f], 3,
                                               Len(results.output_files[f])), n)
                    /\ \A f \in files : ~CarriesNumber(SubSeq(f, 3, Len(f)), n)

\* C7 witness: a successful run with more blocks found than extracted, one block
\* being found on no page and another one extracted
C7_Witness ==
    /\ pc = "done"
    /\ results.success
    /\ results.questions_found >= 2
    /\ results.questions_extracted >= 1
    /\ results.questions_extracted < results.questions_found
    /\ \E j \in 0..(Len(question_blocks) - 1) : BlockHits(j) = {}

\* C8: once segmentation has yielded a block, every block is processed in order,
\* the report and the viewer are written from the questions accumulated (even
\* none), and the run ends in success with the two counts; no block ends it in
\* failure.
C8_EndState ==
    /\ \A a, b \in 1..Len(crops) : a < b => crops[a].block < crops[b].block
    /\ pc = "loop" =>
         /\ Len(question_blocks) > 0
         /\ Len(extracted_questions) <= i
         /\ i <= Len(question_blocks)
    /\ (pc = "done" /\ Len(question_blocks) > 0) =>
         /\ i = Len(question_blocks)
         /\ results.success
         /\ report = [written |-> TRUE, questions |-> extracted_questions]
         /\ {<<"temp", "/", "extraction_report.txt">>, <<"temp", "/", "viewer.html">>}
                \subseteq files
         /\ results.report_path = <<"temp", "/", "extraction_report.txt">>
         /\ results.viewer_path = <<"temp", "/", "viewer.html">>
         /\ results.questions_found = Len(question_blocks)
         /\ results.questions_extracted = Len(extracted_questions)

\* a step taken inside the block loop goes on to the next block, or, once every
\* block has been processed, ends the run in success
C8_LoopStep ==
    pc = "loop" =>
        \/ pc' = "loop" /\ i' = i + 1 /\ ~results'.success
        \/ pc' = "done" /\ i = Len(question_blocks) /\ results'.success

C9_PreconditionFailureWritesNothing ==
    (pc # "check_ollama" /\ pc \notin {"seg_call", "seg_done", "crop_call", "crop_done"}
        /\ PreconditionFails(tags_response)) =>
        /\ pc = "done"
        /\ ~results.success
        /\ Len(results.message) >= 2
        /\ Head(results.message) = "Ollama Error: "
        /\ open_state = "not_called"
        /\ full_text = <<>>
        /\ question_blocks = <<>>
        /\ crops = <<>>
        /\ files = {}
        /\ ~report.written
        /\ results.questions_found = 0
        /\ results.questions_extracted = 0
        /\ results.output_files = <<>>
        /\ results.report_path = <<>>
        /\ results.viewer_path = <<>>

\* C9 witness: the service answers 200 and lists another model only
C9_Witness ==
    /\ pc = "done"
    /\ tags_response = [raised |-> FALSE, status_code |-> 200, models |-> <<"other">>]
    /\ Len(doc) >= 2

\* the paths of the crops that rendered, in call order
RenderedPaths ==
    LET done == SelectSeq(crops, LAMBDA c : c.rendered)
    IN  [k \in 1..Len(done) |-> done[k].path]

\* C10: a rendering or writing failure inside extract_question_image gives False
\* for that block alone: the block joins neither the extracted questions nor
\* output_files, and the blocks after it are processed up to the successful end of
\* the run.
C10_RenderFailureIsLocal ==
    InBlockLoop =>
        /\ \A c \in 1..Len(crops) : crops[c].ok = crops[c].rendered
        /\ [k \in 1..Len(extracted_questions) |-> extracted_questions[k].file_path]
               = RenderedPaths
        /\ results.output_files = RenderedPaths
        /\ (pc = "done" /\ \E c \in 1..Len(crops) : ~crops[c].rendered) =>
              /\ results.success
              /\ i = Len(question_blocks)
              /\ \A j \in 0..(Len(question_blocks) - 1) :
                   BlockHits(j) # {} => CropsOf(j) # {}

\* C10 witness: the crop of one block fails and the crop of a later block succeeds
C10_Witness ==
    /\ pc = "done"
    /\ \E a, b \in 1..Len(crops) :
         a < b /\ ~crops[a].rendered /\ crops[b].rendered

----------------------------------------------------------------------------
(* Properties of the boxes process_pdf gives extract_question_image, checked   *)
(* under Spec                                                                  *)

\* the positions of a page where needle stands
HitPositions(page, needle) ==
    {k \in 1..Len(page) :
        /\ k + Len(needle) - 1 <= Len(page)
        /\ SubSeq(page, k, k + Len(needle) - 1) = needle}

Least(S) == CHOOSE k \in S : \A l \in S : k <= l

\* the text "Question Id : d" the page search is given
IdText(question_id) == <<"QI", " ", ":", " ">> \o question_id

\* the box of the first place of the page where the number text stands, else of
\* the first place where the id text stands, else none
FirstHitBox(page, question_number, question_id) ==
    LET byNumber == HitPositions(page, NumberText(question_number))
        byId     == HitPositions(page, IdText(question_id))
    IN  IF byNumber # {} THEN BoxAt(Least(byNumber))
        ELSE IF byId # {} THEN BoxAt(Least(byId))
        ELSE None

\* C18: the end box of block i is looked up on the page resolved for block i only,
\* by the number of block i+1 first and by its id when the number has no match
\* there; it is absent when block i is the last block or when that page holds
\* neither text, and the bottom of the crop then follows the rule without end box.
C18_EndBoxOnSamePage ==
    InBlockLoop =>
        \A c \in 1..Len(crops) :
            LET j     == crops[c].block
                page  == doc[crops[c].page_num + 1]
                start == crops[c].question_bbox
                end   == crops[c].next_question_bbox
            IN  /\ end = (IF j + 2 <= Len(question_blocks)
                          THEN FirstHitBox(page, question_blocks[j + 2].question_number,
                                           question_blocks[j + 2].question_id)
                          ELSE None)
                /\ (end = None /\ start # None) =>
                      crops[c].clip.y1 = (IF start.y1 + 300 < PageRect.height
                                          THEN start.y1 + 300 ELSE PageRect.height)
                /\ (end # None /\ start # None) =>
                      crops[c].clip.y1 = (IF start.y1 + 50 > end.y0 - 15
                                          THEN start.y1 + 50 ELSE end.y0 - 15)

\* C18 witness: the next question starts on a following page, so the block is
\* cropped without end box
C18_Witness ==
    /\ pc = "done"
    /\ \E c \in 1..Len(crops) :
         /\ crops[c].block + 2 <= Len(question_blocks)
         /\ crops[c].question_bbox # None
         /\ crops[c].next_question_bbox = None
         /\ \E p \in BlockHits(crops[c].block + 1) : p > crops[c].page_num

\* the position on its page of the text a box was found at
PositionOf(box) == (box.y0 \div LineHeight) + 1

\* C19 as stated: for every block cropped, the page resolved and the start box are
\* those of the block's own delimiter: the delimiter found there carries the
\* block's number, not a longer number that begins with the same digits, and two
\* blocks are never given the same place.
C19_StartBoxIsOwnDelimiter ==
    InBlockLoop =>
        /\ \A c \in 1..Len(crops) :
             LET page == doc[crops[c].page_num + 1]
                 m    == question_delimiter_pattern(page,
                             PositionOf(crops[c].question_bbox))
             IN  /\ crops[c].question_bbox # None
                 /\ m # None
                 /\ IntOf(m.group1) = crops[c].question_number
        /\ \A a, b \in 1..Len(crops) :
             (a # b /\ crops[a].page_num = crops[b].page_num) =>
                 crops[a].question_bbox # crops[b].question_bbox

\* C20: whenever process_pdf calls extract_question_image the start box is present
\* and stands at the first place of the page where "Question Number : n" was found:
\* neither the Question Id strategy nor the full-page crop is used for it, and a
\* block whose text is on no page is skipped, not cropped.
C20_StartBoxAlwaysPresent ==
    InBlockLoop =>
        /\ \A c \in 1..Len(crops) :
             LET page == doc[crops[c].page_num + 1]
                 hits == HitPositions(page, NumberText(crops[c].question_number))
             IN  /\ crops[c].question_bbox # None
                 /\ hits # {}
                 /\ crops[c].question_bbox = BoxAt(Least(hits))
                 /\ crops[c].clip # [x0 |-> 0, y0 |-> 0, x1 |-> PageRect.width,
                                     y1 |-> PageRect.height]
                 /\ crops[c].clip.y0 = (IF crops[c].question_bbox.y0 - 20 > 0
                                        THEN crops[c].question_bbox.y0 - 20 ELSE 0)
        /\ \A j \in 0..(i - 1) : BlockHits(j) = {} => CropsOf(j) = {}

\* C20 witness: a block whose id stands on a page but whose number text stands on
\* none was skipped, and another block was cropped
C20_Witness ==
    /\ pc = "done"
    /\ crops # <<>>
    /\ \E j \in 0..(Len(question_blocks) - 1) :
         /\ BlockHits(j) = {}
         /\ HitPages(doc, IdText(question_blocks[j + 1].question_id)) # {}

----------------------------------------------------------------------------
(* Properties of successive runs of process_pdf, checked under SpecRuns *)

\* a run has ended, a run was made before it, and nothing was cleaned since
BothRunsDone == pc = "done" /\ history.previous # None /\ history.finished = None

\* both runs started with an empty output directory
EmptyStarts == history.started_empty /\ history.previous.started_empty

\* the status check, the opening of the PDF and the rendering of each crop went
\* the same way in both runs
SameEnvironmentButAi ==
    /\ history.previous.ollama_status = ~PreconditionFails(tags_response)
    /\ history.previous.open_state = open_state
    /\ history.previous.rendered = [k \in 1..Len(crops) |-> crops[k].rendered]

SameFilesAndReport ==
    /\ Images(files) = history.previous.images
    /\ report = history.previous.report

\* C14 as stated: two runs on the same PDF, each into an emptied output directory,
\* give the same set of image file names and the same report, whatever the AI
\* collaborator answers in the two runs.
C14_SameFilesAndReportWhateverAi ==
    (BothRunsDone /\ EmptyStarts /\ SameEnvironmentButAi) => SameFilesAndReport

\* a block whose text holds the line  What is xxxxxxxxxx?  : the sentence pattern
\* gives its question text
HasQuestionLine(block) ==
    \E k \in 1..(Len(block) - 2) : SubSeq(block, k, k + 2) = <<"What is", "x10", "?">>

\* the image files of a directory named after question number n
ImagesOf(dir, n) == {f \in dir : CarriesNumber(SubSeq(f, 3, Len(f)), n)}

\* C14 amended: the two runs give the same image file names and the same report
\* when the AI collaborator gives the same answers in both; whatever it answers,
\* the images of the blocks whose question text comes from the pattern cascade
\* bear the same names in both runs.
C14_RunsAgree ==
    (BothRunsDone /\ EmptyStarts /\ SameEnvironmentButAi) =>
        /\ history.previous.ai_answers = ai_answers => SameFilesAndReport
        /\ \A j \in 1..Len(question_blocks) :
             (/\ HasQuestionLine(question_blocks[j].full_block)
              /\ \A l \in 1..Len(question_blocks) :
                   l # j => question_blocks[l].question_number
                               # question_blocks[j].question_number) =>
                ImagesOf(Images(files), question_blocks[j].question_number)
                    = ImagesOf(history.previous.images,
                               question_blocks[j].question_number)

\* C14 witness: two runs into an emptied directory with the same answer of the AI
\* collaborator, an image and the report written in each
C14_Witness ==
    /\ BothRunsDone
    /\ EmptyStarts
    /\ SameEnvironmentButAi
    /\ Len(ai_answers) >= 1
    /\ ai_answers[1] # <<>>
    /\ history.previous.ai_answers = ai_answers
    /\ Images(files) # {}
    /\ report.written
    /\ \E j \in 1..Len(question_blocks) : HasQuestionLine(question_blocks[j].full_block)

\* the only step that leaves the position "done" unchanged is clean_temp_directory
IsCleanStep == pc = "done" /\ pc' = "done"

\* the files a step of process_pdf writes: the image of a crop that rendered, the
\* report and the viewer
WrittenInStep ==
    (IF Len(crops') = Len(crops) + 1 /\ crops'[Len(crops')].rendered
     THEN {crops'[Len(crops')].path} ELSE {})
    \cup (IF pc = "loop" /\ pc' = "done" THEN {ReportPath, ViewerPath} ELSE {})

\* C15 as stated: over any sequence of runs a file that exists in the output
\* directory is never removed and never written again, except that
\* clean_temp_directory removes files.
C15_OutputDirAppendOnly ==
    [][/\ IsCleanStep \/ files \subseteq files'
       /\ WrittenInStep \cap files = {}]_vars

\* C15 amended: process_pdf never removes a file: after each of its steps the
\* directory holds the files it held plus the files the step wrote, be they new or
\* written over; only clean_temp_directory removes files, and it adds none.
C15_NeverRemovesButOverwrites ==
    [][/\ ~IsCleanStep => files' = files \cup WrittenInStep
       /\ IsCleanStep => files' \subseteq files]_vars

\* C15 witness: a second run into a directory that was not emptied wrote the
\* report over the one of the first run and added an image to those it found
C15_Witness ==
    /\ BothRunsDone
    /\ ~history.started_empty
    /\ history.previous.report.written
    /\ report.written
    /\ report # history.previous.report
    /\ history.previous.images # {}
    /\ history.previous.images \subseteq files
    /\ Images(files) # history.previous.images

----------------------------------------------------------------------------
(* Properties of extract_question_text, checked under SpecText *)

HasQuestionMark(t) == \E k \in 1..Len(t) : t[k] = "?"

\* a candidate the cascade may return: more than 15 characters and a question mark
Acceptable(t) == TextLen(t) > 15 /\ HasQuestionMark(t)

ReturnedFromCascade == pc = "text_done" /\ text_out.queries = <<>>

ReturnedFromFallback == pc = "text_done" /\ text_out.queries # <<>>

\* the placeholder: "Question ", the first 50 characters of the block, "..."
Placeholder(block) == <<"Question", " ">> \o Slice(block, 50) \o <<".", ".", ".">>

\* the answer of the collaborator once the boilerplate prefix is stripped
Cleaned(response) ==
    LET stripped == Strip(response)
    IN  IF Len(stripped) > 0 /\ Head(stripped) = "Q:" THEN Strip(Tail(stripped))
        ELSE stripped

\* C11: a text returned from the pattern cascade has more than 15 characters and
\* holds a question mark, whatever pattern produced it; a candidate of 15
\* characters or less, or without a question mark, is passed over, and what is
\* returned in its place is a later pattern's candidate, the answer of the AI
\* collaborator or the placeholder.
C11_CascadeNeverAcceptsShort ==
    pc \in {"text_pattern", "text_ai", "text_done"} =>
        LET tried == text_out.tried
            last  == Len(tried)
        IN  /\ ReturnedFromCascade =>
                 /\ text_out.question = tried[last].candidate
                 /\ TextLen(text_out.question) > 15
                 /\ HasQuestionMark(text_out.question)
            /\ \A k \in 1..last :
                 ~Acceptable(tried[k].candidate) =>
                    \/ pc # "text_done"
                    \/ (k < last /\ text_out.question = tried[last].candidate
                          /\ text_out.queries = <<>>)
                    \/ (/\ Len(text_out.queries) = 1
                        /\ text_out.question \in
                              {Cleaned(text_out.queries[1].response),
                               Placeholder(text_in.block)})

\* C11 witness: a candidate with a question mark but too short was passed over and
\* a later pattern's candidate was returned
C11_Witness ==
    /\ ReturnedFromCascade
    /\ \E k \in 1..(Len(text_out.tried) - 1) :
         /\ HasQuestionMark(text_out.tried[k].candidate)
         /\ TextLen(text_out.tried[k].candidate) <= 15

\* C12: the candidate of a pattern with several matches comes from a match no other
\* match of the pattern is longer than (its surrounding whitespace stripped), so a
\* shorter match of the pattern is never returned.
C12_LongestMatchIsCandidate ==
    pc \in {"text_pattern", "text_ai", "text_done"} =>
        \A k \in 1..Len(text_out.tried) :
            LET matches == text_out.tried[k].matches
            IN  Len(matches) > 0 =>
                  \E j \in 1..Len(matches) :
                     /\ text_out.tried[k].candidate = Strip(matches[j])
                     /\ \A l \in 1..Len(matches) :
                          TextLen(matches[l]) <= TextLen(matches[j])

\* C12 witness: the pattern whose candidate was returned had a short match followed
\* by a longer one
C12_Witness ==
    /\ ReturnedFromCascade
    /\ LET matches == text_out.tried[Len(text_out.tried)].matches
       IN  /\ Len(matches) >= 2
           /\ TextLen(matches[1]) < TextLen(matches[2])
           /\ text_out.question = matches[2]

QueryFailed(outcome) == outcome.raised \/ outcome.status_code # 200

\* the number of steps a call can still take: the patterns not yet tried and the
\* one query
StepsLeft ==
    CASE pc = "text_pattern" -> 8 - Len(text_out.tried) + 1
      [] pc = "text_ai"      -> 1
      [] OTHER               -> 0

\* every step of a call that has not returned uses up one of the steps left
C13_StepsLeftDecrease ==
    pc \in {"text_pattern", "text_ai"} =>
        /\ StepsLeft' < StepsLeft
        /\ StepsLeft' >= 0
        /\ text_in' = text_in

\* the result of a call depends on its own block and its own query only
C13_ResultOfOwnBlock ==
    /\ ReturnedFromFallback =>
         /\ Len(text_out.queries) = 1
         /\ QueryFailed(text_out.queries[1]) =>
              /\ text_out.question = Placeholder(text_in.block)
              /\ Len(text_out.question) > 0
              /\ TextLen(text_out.question) <= 9 + 50 + 3
              /\ TextLen(text_out.question)
                    = 9 + Min(50, TextLen(text_in.block)) + 3
    /\ ReturnedFromCascade =>
         text_out.question = extract_question_text(text_in.block, <<>>)

\* C13: with the AI endpoint failing (the request raises, or answers another status
\* than 200) every call of extract_question_text returns after at most nine
\* steps, and for a block the cascade accepts no candidate of it returns the
\* placeholder, non-empty, made of the first 50 characters of the block; whether
\* the query of an earlier block failed changes nothing.
C13_FailingAiGivesPlaceholder ==
    /\ [](pc \in {"text_pattern", "text_ai", "text_done"} => C13_ResultOfOwnBlock)
    /\ [][C13_StepsLeftDecrease]_vars

\* C13 witness: the query of an earlier block failed, the query of this block, longer
\* than 50 characters, failed too, and the placeholder was returned
C13_Witness ==
    /\ ReturnedFromFallback
    /\ text_out.earlier_failed
    /\ QueryFailed(text_out.queries[1])
    /\ TextLen(text_in.block) > 50
    /\ text_out.question = Placeholder(text_in.block)

\* the patterns as the source lists them
ListedOrder ==
    <<"label", "based_on", "sentence", "what_is", "how_much_many", "which_of",
      "in_how_many", "if">>

\* C17: the patterns are tried in their listed order; the candidate of the first
\* pattern that has an acceptable one is returned, a rejected candidate (or no
\* match) leads to the next pattern; the AI collaborator is queried only once
\* all eight patterns have been tried without a candidate accepted, and at most
\* once for the block.
C17_CascadeOrderThenAiOnce ==
    pc \in {"text_pattern", "text_ai", "text_done"} =>
        LET tried == text_out.tried
        IN  /\ Len(tried) <= Len(ListedOrder)
            /\ \A k \in 1..Len(tried) : tried[k].pattern = ListedOrder[k]
            /\ \A k \in 1..Len(tried) :
                 Acceptable(tried[k].candidate)
                    <=> (k = Len(tried) /\ ReturnedFromCascade)
            /\ pc = "text_pattern" => text_out.n = Len(tried) + 1 /\ text_out.queries = <<>>
            /\ pc = "text_ai" => Len(tried) = 8 /\ text_out.queries = <<>>
            /\ Len(text_out.queries) <= 1
            /\ Len(text_out.queries) = 1 => Len(tried) = 8 /\ pc = "text_done"
            /\ ReturnedFromCascade => text_out.question = tried[Len(tried)].candidate

\* C17 witness: the first patterns had no match, a pattern had a candidate that was
\* rejected, and a pattern further down the list gave the text returned
C17_Witness ==
    /\ ReturnedFromCascade
    /\ Len(text_out.tried) >= 5
    /\ \E k \in 1..(Len(text_out.tried) - 1) : Len(text_out.tried[k].matches) > 0
    /\ Len(text_out.tried[1].matches) = 0

----------------------------------------------------------------------------
(* Properties of the driver pipeline, checked under SpecDriver *)

\* C21 as stated: when process_pdf succeeded and run_complete_workflow returned a
\* result, its total_questions equals questions_extracted of the extraction,
\* whatever the image directory held before and also for zero extracted questions.
C21_SolvedEqualsExtracted ==
    (pc = "workflow_done" /\ workflow_results.returned # None) =>
        workflow_results.returned.total_questions = results.questions_extracted

====
